---- MODULE Spec2Model ----
(***************************************************************************)
(* A model of the BBCode / LaTeX parser of src/src/index.ts: the lexer     *)
(* (tokenize, tokenizeTag), the tree builder (the main loop of parse) and  *)
(* the three repair passes (fixInvalidNesting, fixNewlines,                *)
(* removeEmptyTags).  Strings are sequences of one-character strings.      *)
(* Token objects live in a heap (a sequence of records, a token's id is    *)
(* its index); an array of tokens is a sequence of ids in which 0 stands   *)
(* for an `undefined` entry; a null closing is 0.  Attributes are not      *)
(* modelled: no pass reads them.                                           *)
(***************************************************************************)
EXTENDS Integers, Sequences, FiniteSets, TLC

VARIABLES
    handlers,   \* this.handlers: tag name -> BBCode descriptor
    input,      \* the argument of parse
    text,       \* tokenize: the text not yet consumed
    tokens,     \* the lexeme stream (ids), consumed by the tree builder
    heap,       \* the Token objects
    openTags,   \* parse: the stack of open tags (ids), innermost last
    output,     \* parse: the top-level array
    pc,         \* the position inside parse
    lexed,      \* history: the lexemes as tokenize returned them
    built,      \* history: heap and output when the tree builder finished
    mathErr,    \* history: id of the math token of the unterminated branch, 0 if none
    stackAtErr, \* history: openTags when the unterminated branch was taken
    cloneUsed,  \* history: an out-of-order close cloned tags
    result,     \* the array parse returns
    again       \* the forest after the repair passes are run a second time

vars == <<handlers, input, text, tokens, heap, openTags, output, pc, lexed, built,
          mathErr, stackAtErr, cloneUsed, result, again>>

(***************************************************************************)
(* Bounds                                                                  *)
(***************************************************************************)
MaxLen == 3     \* the enumerated inputs are made of at most MaxLen pieces

(***************************************************************************)
(* Strings                                                                 *)
(***************************************************************************)
BS == "\\"

RECURSIVE Concat(_)
Concat(ss) == IF ss = <<>> THEN <<>> ELSE Head(ss) \o Concat(Tail(ss))

Min(S) == CHOOSE x \in S : \A y \in S : x <= y

UpperCase == <<"A","B","C","D","E","F","G","H","I","J","K","L","M",
               "N","O","P","Q","R","S","T","U","V","W","X","Y","Z">>
LowerCase == <<"a","b","c","d","e","f","g","h","i","j","k","l","m",
               "n","o","p","q","r","s","t","u","v","w","x","y","z">>

\* String.prototype.toLowerCase
toLowerCase(s) ==
    [k \in 1..Len(s) |->
        IF \E u \in 1..26 : UpperCase[u] = s[k]
        THEN LowerCase[CHOOSE u \in 1..26 : UpperCase[u] = s[k]]
        ELSE s[k]]

\* the regex class \s, and the test /\S| / of removeEmptyTags
IsSpace(c) == c \in {" ", "\t", "\n", "\r"}
HasNonSpace(s) == \E k \in 1..Len(s) : ~IsSpace(s[k])

(***************************************************************************)
(* Options (ParserDefaults) and descriptors (BBCode)                       *)
(***************************************************************************)
breakBeforeBlock == FALSE
breakStartBlock == FALSE
breakEndBlock == FALSE
breakAfterBlock == TRUE
removeEmptyTagsOpt == TRUE
fixInvalidNestingOpt == TRUE
fixInvalidChildren == TRUE
escapeDollar == TRUE
delimOpen == "["
delimClose == "]"
delimMarkClose == "/"

\* An optional boolean property is "undefined", "true" or "false"; an optional
\* array property is <<>> when absent and <<S>> when it is the array with
\* element set S.
Undef == "undefined"
Absent == <<>>
BBCode ==
    [isInline |-> Undef, closedBy |-> Absent, isSelfClosing |-> Undef,
     breakBefore |-> Undef, breakAfter |-> Undef, allowedChildren |-> Absent,
     breakStart |-> Undef, breakEnd |-> Undef, allowsEmpty |-> Undef,
     allowMath |-> Undef]

Truthy(v) == v = "true"
IsFalse(v) == v = "false"

\* this.end: begin delimiter -> end delimiter
Dollar == <<"$">>
DDollar == <<"$", "$">>
EndOf(begin) ==
    CASE begin = Dollar -> Dollar
      [] begin = <<BS, "(">> -> <<BS, ")">>
      [] begin = <<BS, "[">> -> <<BS, "]">>
      [] begin = DDollar -> DDollar
      [] OTHER -> <<>>

(***************************************************************************)
(* Lexer                                                                   *)
(***************************************************************************)
\* a variant of tokenOrder that tries content before the tags
tokenOrderContentFirst ==
    <<"escapedollar", "opendmath", "closedmath", "openimath", "closeimath",
      "content", "close", "open", "newline">>

tokenOrder ==
    <<"escapedollar", "opendmath", "closedmath", "openimath", "closeimath",
      "close", "open", "newline", "content">>

\* endContent: the first characters of the tag and math delimiters
endContent == {delimOpen, "$", BS}

StartsWith(t, p) == Len(t) >= Len(p) /\ SubSeq(t, 1, Len(p)) = p

\* index of the first bracket of t at or after from, 0 when there is none
FirstBracket(t, from) ==
    LET S == {j \in from..Len(t) : t[j] \in {delimOpen, delimClose}}
    IN  IF S = {} THEN 0 ELSE Min(S)

\* this.tokenTypes: the length of the match of the regex of `type` at the
\* front of t, 0 when it does not match
MatchLen(type, t) ==
    CASE type = "escapedollar" -> IF StartsWith(t, <<BS, "$">>) THEN 2 ELSE 0
      [] type = "opendmath" ->
            IF StartsWith(t, <<BS, "[">>) \/ StartsWith(t, DDollar) THEN 2 ELSE 0
      [] type = "closedmath" ->
            IF StartsWith(t, <<BS, "]">>) \/ StartsWith(t, DDollar) THEN 2 ELSE 0
      [] type = "openimath" ->
            IF StartsWith(t, Dollar) THEN 1
            ELSE IF StartsWith(t, <<BS, "(">>) THEN 2 ELSE 0
      [] type = "closeimath" ->
            IF StartsWith(t, Dollar) THEN 1
            ELSE IF StartsWith(t, <<BS, ")">>) THEN 2 ELSE 0
      [] type = "close" ->
            IF StartsWith(t, <<delimOpen, delimMarkClose>>)
            THEN LET j == FirstBracket(t, 3)
                 IN  IF j > 3 /\ t[j] = delimClose THEN j ELSE 0
            ELSE 0
      [] type = "open" ->
            IF StartsWith(t, <<delimOpen>>)
            THEN LET j == FirstBracket(t, 2)
                 IN  IF j > 2 /\ t[j] = delimClose THEN j ELSE 0
            ELSE 0
      [] type = "newline" ->
            IF StartsWith(t, <<"\r", "\n">>) THEN 2
            ELSE IF StartsWith(t, <<"\r">>) \/ StartsWith(t, <<"\n">>) THEN 1 ELSE 0
      [] type = "content" ->
            IF t = <<>> THEN 0
            ELSE LET S == {j \in 1..Len(t) : t[j] \in endContent \union {"\r", "\n"}}
                 IN  IF S = {} THEN Len(t)
                     ELSE IF Min(S) > 1 THEN Min(S) - 1
                     ELSE IF t[1] \in endContent THEN 1 ELSE 0
      [] OTHER -> 0

Hash == <<"#">>
NewlineName == <<"#", "n", "e", "w", "l", "i", "n", "e">>
IsMathType(type) == type \in {"openimath", "opendmath", "closeimath", "closedmath"}

\* the first group of openRegex, [^\]\s=]+ right after the open delimiter;
\* <<>> when openRegex does not match val
OpenName(val) ==
    LET S == {j \in 2..Len(val) : IsSpace(val[j]) \/ val[j] \in {"=", delimClose}}
        j == IF S = {} THEN Len(val) + 1 ELSE Min(S)
    IN  IF j > 2 THEN SubSeq(val, 2, j - 1) ELSE <<>>

\* the group of closeRegex, everything between "[/" and "]"
CloseName(val) == SubSeq(val, 3, Len(val) - 1)

NewToken(type, name, value) ==
    [type |-> type, name |-> name, value |-> value, children |-> <<>>,
     closing |-> 0, error |-> <<>>]

tokenizeTag(type, val) ==
    LET name ==
            CASE type = "open" -> toLowerCase(OpenName(val))
              [] type = "close" -> toLowerCase(CloseName(val))
              [] type = "newline" -> NewlineName
              [] type = "escapedollar" -> Hash
              [] IsMathType(type) -> val
              [] OTHER -> <<>>
    IN  IF name = <<>> \/ (type \in {"open", "close"} /\ name \notin DOMAIN handlers)
        THEN NewToken("content", Hash, val)
        ELSE NewToken(type, name, val)

\* the first entry of tokenOrder whose regex matches at the front of t, 0 if none
FirstMatch(t) ==
    LET S == {k \in 1..Len(tokenOrder) : MatchLen(tokenOrder[k], t) > 0}
    IN  IF S = {} THEN 0 ELSE Min(S)

\* one iteration of mainLoop
Tokenize ==
    /\ pc = "tokenize"
    /\ text # <<>>
    /\ LET k == FirstMatch(text)
           n == IF k = 0 THEN Len(text) ELSE MatchLen(tokenOrder[k], text)
           type == IF k = 0 THEN "content" ELSE tokenOrder[k]
       IN  /\ heap' = Append(heap, tokenizeTag(type, SubSeq(text, 1, n)))
           /\ tokens' = Append(tokens, Len(heap) + 1)
           /\ text' = SubSeq(text, n + 1, Len(text))
    /\ UNCHANGED <<handlers, input, lexed, openTags, output, pc, built, mathErr,
                   stackAtErr, cloneUsed, result, again>>

\* tokenize returns: the tree builder starts
TokenizeDone ==
    /\ pc = "tokenize"
    /\ text = <<>>
    /\ pc' = "build"
    /\ lexed' = heap
    /\ UNCHANGED <<handlers, input, text, tokens, heap, openTags, output, built,
                   mathErr, stackAtErr, cloneUsed, result, again>>

(***************************************************************************)
(* Tree builder: the main loop of parse                                    *)
(***************************************************************************)
\* currentTag(): the innermost open tag, 0 (undefined) when the stack is empty
currentTag(ot) == IF ot = <<>> THEN 0 ELSE ot[Len(ot)]

Pop(ot) == SubSeq(ot, 1, Len(ot) - 1)

\* a variant of addTag that puts the token in front (unshift for push)
addTagInFront(h, out, ot, id) ==
    IF ot # <<>>
    THEN [heap |-> [h EXCEPT ![ot[Len(ot)]].children = <<id>> \o @], output |-> out]
    ELSE [heap |-> h, output |-> <<id>> \o out]

\* addTag(token): the heap and the output array after the push
addTag(h, out, ot, id) ==
    IF currentTag(ot) # 0
    THEN [heap |-> [h EXCEPT ![currentTag(ot)].children = Append(@, id)], output |-> out]
    ELSE [heap |-> h, output |-> Append(out, id)]

isAllowed(tag, child) ==
    IF tag \in DOMAIN handlers /\ fixInvalidChildren
       /\ handlers[tag].allowedChildren # Absent
    THEN child \in handlers[tag].allowedChildren[1]
    ELSE TRUE

closesTag(tag, closing) ==
    /\ tag \in DOMAIN handlers
    /\ handlers[tag].closedBy # Absent
    /\ closing \in handlers[tag].closedBy[1]

hasTag(h, name, type, array) ==
    \E k \in 1..Len(array) : h[array[k]].name = name /\ h[array[k]].type = type

\* token.type.replace("open", "close")
CloseType(type) == IF type = "openimath" THEN "closeimath" ELSE "closedmath"

\* The constructor of Token throws when a token that is no open or math token
\* is given a closing token.
CtorThrows(type, closing) ==
    type \notin {"open", "openimath", "closeimath", "opendmath", "closedmath"}
    /\ closing # 0

\* Token.clone: the heap with the clone appended last (after the clone of the
\* closing token, if there is one).  The clone has no children.
RECURSIVE clone(_, _)
clone(h, id) ==
    LET h1 == IF h[id].closing # 0 THEN clone(h, h[id].closing) ELSE h
    IN  Append(h1, [h[id] EXCEPT !.children = <<>>,
                                 !.closing = IF h[id].closing # 0 THEN Len(h1) ELSE 0])

RECURSIVE CloneThrows(_, _)
CloneThrows(h, id) ==
    \/ CtorThrows(h[id].type, h[id].closing)
    \/ (h[id].closing # 0 /\ CloneThrows(h, h[id].closing))

\* the lexeme the iteration takes, the rest of the stream and tokens[0]
Tok == Head(tokens)
\* a variant of Rest in which the loop does not take the token off the stream
RestWithToken == tokens

Rest == Tail(tokens)
NextTok == IF Rest = <<>> THEN 0 ELSE Head(Rest)

IsMathOpen(t) == t.type \in {"openimath", "opendmath"}

MathForbidden ==
    \E k \in 1..Len(openTags) : IsFalse(handlers[heap[openTags[k]].name].allowMath)

MathEndAhead ==
    LET t == heap[Tok]
    IN  \/ hasTag(heap, EndOf(t.name), CloseType(t.type), Rest)
        \/ hasTag(heap, EndOf(t.name), t.type, Rest)

Building == pc = "build" /\ tokens # <<>>

\* a math delimiter inside a tag with allowMath: false becomes content
MathDisallowed ==
    /\ Building
    /\ IsMathOpen(heap[Tok])
    /\ MathForbidden
    /\ LET r == addTag([heap EXCEPT ![Tok].type = "content"], output, openTags, Tok)
       IN  /\ heap' = r.heap
           /\ output' = r.output
    /\ tokens' = Rest
    /\ UNCHANGED <<handlers, input, lexed, text, openTags, pc, built, mathErr, stackAtErr,
                   cloneUsed, result, again>>

ErrorText(name) ==
    <<"The corresponding closing tag for ">> \o name \o <<" was not found">>

\* the heap after every tag of the stack ot got a synthesized closing token
RECURSIVE CloseAll(_, _)
CloseAll(h, ot) ==
    IF ot = <<>> THEN h
    ELSE LET tok == currentTag(ot)
             cl == NewToken("close", h[tok].name,
                            <<delimOpen, delimMarkClose>> \o h[tok].name \o <<delimClose>>)
             h1 == Append(h, cl)
         IN  CloseAll([h1 EXCEPT ![tok].closing = Len(h1)], Pop(ot))

\* no end delimiter ahead: the rest of the stream becomes the content of the
\* math token, every open tag is closed and the loop ends
MathUnterminated ==
    /\ Building
    /\ IsMathOpen(heap[Tok])
    /\ ~MathForbidden
    /\ ~MathEndAhead
    /\ LET h1 == [id \in 1..Len(heap) |->
                    IF id = Tok
                    THEN [heap[id] EXCEPT !.error = ErrorText(heap[id].name), !.children = @ \o Rest]
                    ELSE IF \E k \in 1..Len(Rest) : Rest[k] = id
                         THEN [heap[id] EXCEPT !.type = "content"]
                         ELSE heap[id]]
           r == addTag(h1, output, openTags, Tok)
       IN  /\ heap' = CloseAll(r.heap, openTags)
           /\ output' = r.output
    /\ tokens' = <<>>
    /\ openTags' = <<>>
    /\ mathErr' = Tok
    /\ stackAtErr' = openTags
    /\ UNCHANGED <<handlers, input, lexed, text, pc, built, cloneUsed, result, again>>

\* is the lexeme id the end of the math span opened by t
EndsMath(h, t, id) ==
    /\ h[id].type \in {CloseType(t.type), t.type}
    /\ h[id].name = EndOf(t.name)

\* the end delimiter is ahead: everything up to it becomes content of the span
MathSpan ==
    /\ Building
    /\ IsMathOpen(heap[Tok])
    /\ ~MathForbidden
    /\ MathEndAhead
    /\ LET t == heap[Tok]
           e == Min({k \in 1..Len(Rest) : EndsMath(heap, t, Rest[k])})
           inner == SubSeq(Rest, 1, e - 1)
           h1 == [id \in 1..Len(heap) |->
                    IF id = Tok
                    THEN [heap[id] EXCEPT !.children = @ \o inner, !.closing = Rest[e]]
                    ELSE IF \E k \in 1..Len(inner) : inner[k] = id
                         THEN [heap[id] EXCEPT !.type = "content"]
                         ELSE heap[id]]
           r == addTag(h1, output, openTags, Tok)
       IN  /\ heap' = r.heap
           /\ output' = r.output
           /\ tokens' = SubSeq(Rest, e + 1, Len(Rest))
    /\ UNCHANGED <<handlers, input, lexed, text, openTags, pc, built, mathErr, stackAtErr,
                   cloneUsed, result, again>>

\* the suppressed-child check: the token as the branches below see it
Suppressed(h, ot, id) ==
    IF /\ \E k \in 1..Len(ot) : ~isAllowed(h[ot[k]].name, h[id].name)
       /\ (h[id].type # "close" \/ h[id].name # h[currentTag(ot)].name)
    THEN [h[id] EXCEPT !.name = Hash, !.type = "content"]
    ELSE h[id]

\* the heap after the suppressed-child check of the current lexeme
Checked == [heap EXCEPT ![Tok] = Suppressed(heap, openTags, Tok)]

NotMath == Building /\ ~IsMathOpen(heap[Tok])

\* a variant of PushesOpen that does not look ahead for the close tag
PushesOnlyWhenClosedBy(h, id, rest) == handlers[h[id].name].closedBy # Absent

\* a variant of PushesOpen that looks for the close tag at the next lexeme only
PushesWhenCloseIsNext(h, id, rest) ==
    \/ handlers[h[id].name].closedBy # Absent
    \/ hasTag(h, h[id].name, "close", IF rest = <<>> THEN rest ELSE <<Head(rest)>>)

PushesOpen(h, id, rest) ==
    \/ handlers[h[id].name].closedBy # Absent
    \/ hasTag(h, h[id].name, "close", rest)

OpenTag ==
    /\ NotMath
    /\ Checked[Tok].type = "open"
    /\ LET name == Checked[Tok].name
           ot1 == IF currentTag(openTags) # 0
                     /\ closesTag(Checked[currentTag(openTags)].name, name)
                  THEN Pop(openTags) ELSE openTags
           r == addTag(Checked, output, ot1, Tok)
           selfClosing == Truthy(handlers[name].isSelfClosing)
           push == ~selfClosing /\ PushesOpen(Checked, Tok, Rest)
       IN  /\ heap' = IF selfClosing \/ push THEN r.heap
                      ELSE [r.heap EXCEPT ![Tok].type = "content"]
           /\ output' = r.output
           /\ openTags' = IF push THEN Append(ot1, Tok) ELSE ot1
    /\ tokens' = Rest
    /\ UNCHANGED <<handlers, input, lexed, text, pc, built, mathErr, stackAtErr,
                   cloneUsed, result, again>>

\* the stack after the auto-close chain of a close lexeme called name
RECURSIVE PopChain(_, _, _)
PopChain(h, ot, name) ==
    IF /\ currentTag(ot) # 0
       /\ name # h[currentTag(ot)].name
       /\ closesTag(h[currentTag(ot)].name, <<delimMarkClose>> \o name)
    THEN PopChain(h, Pop(ot), name)
    ELSE ot

\* a variant of ClosesCurrent that does not compare the names
ClosesAnyCurrent(h, ot, name) == ot # <<>>

ClosesCurrent(h, ot, name) == currentTag(ot) # 0 /\ name = h[currentTag(ot)].name

\* the close lexeme closes the innermost open tag (after the auto-close chain)
CloseTag ==
    /\ NotMath
    /\ Checked[Tok].type = "close"
    /\ LET ot1 == PopChain(Checked, openTags, Checked[Tok].name)
       IN  /\ ClosesCurrent(Checked, ot1, Checked[Tok].name)
           /\ heap' = [Checked EXCEPT ![currentTag(ot1)].closing = Tok]
           /\ openTags' = Pop(ot1)
    /\ tokens' = Rest
    /\ UNCHANGED <<handlers, input, lexed, text, output, pc, built, mathErr, stackAtErr,
                   cloneUsed, result, again>>

\* the heap with the clones of ot[from..Len(ot)] appended, innermost first,
\* each clone holding the previous one as its only child
RECURSIVE CloneChain(_, _, _, _)
CloneChain(h, ot, from, prev) ==
    IF Len(ot) < from THEN h
    ELSE LET h1 == clone(h, currentTag(ot))
             h2 == IF prev # 0 THEN [h1 EXCEPT ![Len(h1)].children = <<prev>>] ELSE h1
         IN  CloneChain(h2, Pop(ot), from, Len(h2))

\* the ids of the clones CloneChain made, outermost first (the order in which
\* they are pushed back on the stack)
RECURSIVE ClonedIds(_, _, _)
ClonedIds(h, ot, from) ==
    IF Len(ot) < from THEN <<>>
    ELSE LET h1 == clone(h, currentTag(ot))
         IN  ClonedIds(h1, Pop(ot), from) \o <<Len(h1)>>

\* the close lexeme closes a tag further up the stack
CloseOutOfOrder ==
    /\ NotMath
    /\ Checked[Tok].type = "close"
    /\ LET name == Checked[Tok].name
           ot1 == PopChain(Checked, openTags, name)
           m == CHOOSE k \in 1..Len(ot1) :
                    /\ Checked[ot1[k]].name = name
                    /\ \A j \in (k + 1)..Len(ot1) : Checked[ot1[j]].name # name
           ot2 == SubSeq(ot1, 1, m - 1)
           h1 == [Checked EXCEPT ![ot1[m]].closing = Tok]
           h2 == CloneChain(h1, ot1, m + 1, 0)
           ids == ClonedIds(h1, ot1, m + 1)
           absorb == /\ NextTok # 0
                     /\ Checked[NextTok].type = "newline"
                     /\ name \in DOMAIN handlers
                     /\ IsFalse(handlers[name].isInline)
           r1 == IF absorb THEN addTag(h2, output, ot2, NextTok)
                 ELSE [heap |-> h2, output |-> output]
           r2 == addTag(r1.heap, r1.output, ot2, Head(ids))
       IN  /\ ~ClosesCurrent(Checked, ot1, name)
           /\ hasTag(Checked, name, "open", ot1)
           /\ IF \E k \in (m + 1)..Len(ot1) : CloneThrows(h1, ot1[k])
              THEN /\ pc' = "threw"
                   /\ UNCHANGED <<heap, output, openTags, tokens>>
              ELSE /\ heap' = r2.heap
                   /\ output' = r2.output
                   /\ openTags' = ot2 \o ids
                   /\ tokens' = IF absorb THEN Tail(Rest) ELSE Rest
                   /\ pc' = pc
    /\ cloneUsed' = TRUE
    /\ UNCHANGED <<handlers, input, lexed, text, built, mathErr, stackAtErr, result, again>>

\* a close lexeme that closes nothing becomes content
CloseStray ==
    /\ NotMath
    /\ Checked[Tok].type = "close"
    /\ LET name == Checked[Tok].name
           ot1 == PopChain(Checked, openTags, name)
           r == addTag([Checked EXCEPT ![Tok].type = "content"], output, ot1, Tok)
       IN  /\ ~ClosesCurrent(Checked, ot1, name)
           /\ ~hasTag(Checked, name, "open", ot1)
           /\ heap' = r.heap
           /\ output' = r.output
           /\ openTags' = ot1
    /\ tokens' = Rest
    /\ UNCHANGED <<handlers, input, lexed, text, pc, built, mathErr, stackAtErr,
                   cloneUsed, result, again>>

\* currentTag.name (line 941 reads the name of the function currentTag, not
\* of the token it returns)
currentTagFunctionName == <<"c","u","r","r","e","n","t","T","a","g">>

\* does the newline auto-close the innermost tag
NewlinePops(h, ot, next) ==
    /\ currentTag(ot) # 0
    /\ next # 0
    /\ closesTag(h[currentTag(ot)].name,
                 (IF h[next].type = "close" THEN <<delimMarkClose>> ELSE <<>>)
                    \o h[next].name)
    /\ ~(h[next].type = "close" /\ h[next].name = currentTagFunctionName)
    /\ LET bbcode == handlers[h[currentTag(ot)].name]
       IN  \/ Truthy(bbcode.breakAfter)
           \/ (IsFalse(bbcode.isInline) /\ breakAfterBlock)

NewlineTok ==
    /\ NotMath
    /\ Checked[Tok].type = "newline"
    /\ LET ot1 == IF NewlinePops(Checked, openTags, NextTok)
                  THEN Pop(openTags) ELSE openTags
           r == addTag(Checked, output, ot1, Tok)
       IN  /\ heap' = r.heap
           /\ output' = r.output
           /\ openTags' = ot1
    /\ tokens' = Rest
    /\ UNCHANGED <<handlers, input, lexed, text, pc, built, mathErr, stackAtErr,
                   cloneUsed, result, again>>

\* every other lexeme is added to the current container
ContentTok ==
    /\ NotMath
    /\ Checked[Tok].type \notin {"open", "close", "newline"}
    /\ LET r == addTag(Checked, output, openTags, Tok)
       IN  /\ heap' = r.heap
           /\ output' = r.output
    /\ tokens' = Rest
    /\ UNCHANGED <<handlers, input, lexed, text, openTags, pc, built, mathErr, stackAtErr,
                   cloneUsed, result, again>>

(***************************************************************************)
(* Repair passes.  They work on a forest F = [heap, output, threw]: the     *)
(* Token objects, the root array and whether an exception was thrown.  A   *)
(* container is named by the id of the token that owns the array, 0 for    *)
(* the root array.                                                         *)
(***************************************************************************)
Forest(h, out) == [heap |-> h, output |-> out, threw |-> FALSE]

Kids(F, c) == IF c = 0 THEN F.output ELSE F.heap[c].children

SetKids(F, c, kids) ==
    IF c = 0 THEN [F EXCEPT !.output = kids]
    ELSE [F EXCEPT !.heap[c].children = kids]

\* Array.prototype.indexOf, 1-based; 0 when x is not in the array
IndexOf(arr, x) ==
    LET S == {k \in 1..Len(arr) : arr[k] = x}
    IN  IF S = {} THEN 0 ELSE Min(S)

\* arr.splice(at, 0, ...items) with at counted from 1
InsertAt(arr, at, items) ==
    SubSeq(arr, 1, at - 1) \o items \o SubSeq(arr, at, Len(arr))

RemoveAt(arr, at) == SubSeq(arr, 1, at - 1) \o SubSeq(arr, at + 1, Len(arr))

isInline(tag) == tag \notin DOMAIN handlers \/ ~IsFalse(handlers[tag].isInline)

\* Token.splitAt(child): the clone of the token (appended last to the heap)
\* takes the children from child on
splitAt(F, id, child) ==
    LET h1 == clone(F.heap, id)
        offset == IndexOf(F.heap[id].children, child)
    IN  IF offset > 0
        THEN [F EXCEPT !.heap =
                [h1 EXCEPT ![Len(h1)].children =
                               SubSeq(F.heap[id].children, offset, Len(F.heap[id].children)),
                           ![id].children = SubSeq(F.heap[id].children, 1, offset - 1)]]
        ELSE [F EXCEPT !.heap = h1]

\* lines 582-586: when the block tag allows the inline parent as a child, a
\* clone of the parent takes the children of the block tag and becomes its
\* only child
\* a variant of WrapChildren that leaves the children of the block tag alone
WrapNothing(F, token, parent) == F

WrapChildren(F, token, parent) ==
    IF isAllowed(F.heap[token].name, F.heap[parent].name)
    THEN [F EXCEPT !.heap =
            [clone(F.heap, parent) EXCEPT
                ![Len(clone(F.heap, parent))].children = F.heap[token].children,
                ![token].children = <<Len(clone(F.heap, parent))>>]]
    ELSE F

\* lines 591-592: the block tag leaves the right half and both are put after
\* the parent in the enclosing array hc
SpliceAfter(F, hc, parentIdx, token, right) ==
    SetKids([F EXCEPT !.heap[right].children = IF @ = <<>> THEN @ ELSE Tail(@)],
            hc, InsertAt(Kids(F, hc), parentIdx + 1, <<token, right>>))

\* lines 594-601: a newline that now starts the right half moves out of it,
\* to just after the block tag
MoveNewline(F, hc, parentIdx, token, right) ==
    IF /\ F.heap[right].children # <<>>
       /\ Head(F.heap[right].children) # 0
       /\ F.heap[Head(F.heap[right].children)].type = "newline"
       /\ ~isInline(F.heap[token].name)
    THEN SetKids([F EXCEPT !.heap[right].children = Tail(@)], hc,
                 InsertAt(Kids(F, hc), parentIdx + 2, <<Head(F.heap[right].children)>>))
    ELSE F

\* the enclosing array of the innermost parent: heirarchyChildren
Heirarchy(parents) == IF Len(parents) > 1 THEN parents[Len(parents) - 1] ELSE 0

\* lines 570-603 once the parent is split and the children are wrapped (S):
\* splice when the parent is found in the enclosing array, and return
SpliceBlock(S, token, parents, right) ==
    IF IndexOf(Kids(S, Heirarchy(parents)), parents[Len(parents)]) > 0
    THEN [F |-> MoveNewline(
                    SpliceAfter(S, Heirarchy(parents),
                        IndexOf(Kids(S, Heirarchy(parents)), parents[Len(parents)]),
                        token, right),
                    Heirarchy(parents),
                    IndexOf(Kids(S, Heirarchy(parents)), parents[Len(parents)]),
                    token, right),
          returns |-> TRUE]
    ELSE [F |-> S, returns |-> FALSE]

\* lines 570-603: the rewrite of a block token found inside an inline parent.
\* The result says whether the routine returns (the parent was found in the
\* enclosing array) or goes on to recurse into the token.
SplitBlock(F, token, parents) ==
    IF CloneThrows(F.heap, parents[Len(parents)])
    THEN [F |-> [F EXCEPT !.threw = TRUE], returns |-> TRUE]
    ELSE SpliceBlock(
            WrapChildren(splitAt(F, parents[Len(parents)], token), token,
                         parents[Len(parents)]),
            token, parents,
            Len(splitAt(F, parents[Len(parents)], token).heap))

\* the for loop of fixInvalidNesting from index i on
\* lines 607-615: recurse into the children of token, then go on with the loop
RECURSIVE fixInvalidNesting(_, _, _, _, _)
\* a variant of Descend that does not enter an inline environment
DescendAsOutside(F, main, parents, inline, i, token) ==
    fixInvalidNesting(
        fixInvalidNesting(F, token, Append(parents, token), inline, 1),
        main, parents, inline, i + 1)

Descend(F, main, parents, inline, i, token) ==
    fixInvalidNesting(
        fixInvalidNesting(F, token, Append(parents, token),
                          inline \/ isInline(F.heap[token].name), 1),
        main, parents, inline, i + 1)

\* the outcome of the rewrite: return, or fall through to the recursion
AfterSplit(s, main, parents, inline, i, token) ==
    IF s.returns THEN s.F ELSE Descend(s.F, main, parents, inline, i, token)

\* one iteration of the loop on the open token at index i
OnOpenToken(F, main, parents, inline, i, token) ==
    IF inline /\ ~isInline(F.heap[token].name)
    THEN AfterSplit(SplitBlock(F, token, parents), main, parents, inline, i, token)
    ELSE Descend(F, main, parents, inline, i, token)

fixInvalidNesting(F, main, parents, inline, i) ==
    IF F.threw \/ i > Len(Kids(F, main)) THEN F
    ELSE IF Kids(F, main)[i] = 0 \/ F.heap[Kids(F, main)[i]].type # "open"
    THEN fixInvalidNesting(F, main, parents, inline, i + 1)
    ELSE OnOpenToken(F, main, parents, inline, i, Kids(F, main)[i])

\* the policy tests of fixNewlines: `block default and not switched off, or
\* switched on`
BreaksAt(bbcode, blockDefault, flag) ==
    \/ (IsFalse(bbcode.isInline) /\ blockDefault /\ ~IsFalse(flag))
    \/ Truthy(flag)

\* the for loop of fixNewlines from index j down (j counts from 1, so the
\* loop starts at Len + 1, past the end of the array); parent is 0 at the root
RECURSIVE fixNewlines(_, _, _, _, _)
fixNewlines(F, parent, j, removedBreakStart, removedBreakEnd) ==
    IF j < 1 THEN F
    ELSE
    LET children == Kids(F, parent)
        At(k) == IF k >= 1 /\ k <= Len(children) THEN children[k] ELSE 0
        token == At(j)
        left == At(j - 1)
        right == At(j + 1)
        hasParent == parent # 0 /\ F.heap[parent].name \in DOMAIN handlers
        parentBBCode == handlers[F.heap[parent].name]
        inParent == hasParent /\ ~Truthy(parentBBCode.isSelfClosing)
        atStart == /\ inParent
                   /\ left = 0
                   /\ BreaksAt(parentBBCode, breakStartBlock, parentBBCode.breakStart)
        atEnd == inParent /\ ~atStart /\ ~removedBreakEnd /\ right = 0
        remove1 == \/ atStart
                   \/ (atEnd /\ BreaksAt(parentBBCode, breakEndBlock, parentBBCode.breakEnd))
        rbe == IF atEnd THEN remove1 ELSE removedBreakEnd
        remove2 ==
            \/ remove1
            \/ /\ left # 0
               /\ F.heap[left].type = "open"
               /\ F.heap[left].name \in DOMAIN handlers
               /\ BreaksAt(handlers[F.heap[left].name], breakAfterBlock,
                           handlers[F.heap[left].name].breakAfter)
        before == /\ ~removedBreakStart
                  /\ right # 0
                  /\ F.heap[right].type = "open"
                  /\ F.heap[right].name \in DOMAIN handlers
        remove3 ==
            \/ remove2
            \/ /\ before
               /\ BreaksAt(handlers[F.heap[right].name], breakBeforeBlock,
                           handlers[F.heap[right].name].breakBefore)
        rbs == IF before THEN remove3 ELSE removedBreakStart
    IN  IF token = 0 THEN fixNewlines(F, parent, j - 1, removedBreakStart, removedBreakEnd)
        ELSE IF F.heap[token].type = "open"
        THEN fixNewlines(
                fixNewlines(F, token, Len(F.heap[token].children) + 1, FALSE, FALSE),
                parent, j - 1, removedBreakStart, removedBreakEnd)
        ELSE IF F.heap[token].type = "newline"
        THEN fixNewlines(
                IF remove3 THEN SetKids(F, parent, RemoveAt(children, j)) ELSE F,
                parent, j - 1, rbs, rbe)
        ELSE fixNewlines(F, parent, j - 1, removedBreakStart, removedBreakEnd)

\* isWhitespace of removeEmptyTags from index k on: "true", "false", or
\* "throw" when it reads the type of an undefined entry
RECURSIVE isWhitespace(_, _, _)
isWhitespace(h, children, k) ==
    IF k > Len(children) THEN "true"
    ELSE IF children[k] = 0 THEN "throw"
    ELSE IF h[children[k]].type \in {"open", "close"} THEN "false"
    ELSE IF h[children[k]].type = "content" /\ HasNonSpace(h[children[k]].value)
    THEN "false"
    ELSE isWhitespace(h, children, k + 1)

\* a variant of MayNotBeEmpty that lost the negation of isSelfClosing
MayNotBeEmptySelfClosing(name) ==
    /\ name \in DOMAIN handlers
    /\ Truthy(handlers[name].isSelfClosing)
    /\ ~Truthy(handlers[name].allowsEmpty)

\* the descriptor test of lines 751-753
MayNotBeEmpty(name) ==
    /\ name \in DOMAIN handlers
    /\ ~Truthy(handlers[name].isSelfClosing)
    /\ ~Truthy(handlers[name].allowsEmpty)

\* a variant of removeEmptyTags that tests a tag before it descends into it
RECURSIVE removeEmptyTagsParentFirst(_, _, _)
removeEmptyTagsParentFirst(F, c, i) ==
    IF F.threw \/ i > Len(Kids(F, c)) THEN F
    ELSE IF Kids(F, c)[i] = 0 \/ F.heap[Kids(F, c)[i]].type # "open"
    THEN removeEmptyTagsParentFirst(F, c, i + 1)
    ELSE IF isWhitespace(F.heap, F.heap[Kids(F, c)[i]].children, 1) = "throw"
    THEN [F EXCEPT !.threw = TRUE]
    ELSE IF /\ isWhitespace(F.heap, F.heap[Kids(F, c)[i]].children, 1) = "true"
            /\ ~Truthy(handlers[F.heap[Kids(F, c)[i]].name].isSelfClosing)
            /\ ~Truthy(handlers[F.heap[Kids(F, c)[i]].name].allowsEmpty)
    THEN removeEmptyTagsParentFirst(
            SetKids(F, c, [Kids(F, c) EXCEPT ![i] =
                IF F.heap[Kids(F, c)[i]].children = <<>> THEN 0
                ELSE Head(F.heap[Kids(F, c)[i]].children)]), c, i + 1)
    ELSE removeEmptyTagsParentFirst(
            removeEmptyTagsParentFirst(F, Kids(F, c)[i], 1), c, i + 1)

\* the for loop of removeEmptyTags over the array of container c, from index i
RECURSIVE removeEmptyTags(_, _, _)
removeEmptyTags(F, c, i) ==
    IF F.threw \/ i > Len(Kids(F, c)) THEN F
    ELSE LET token == Kids(F, c)[i]
         IN  IF token = 0 \/ F.heap[token].type # "open"
             THEN removeEmptyTags(F, c, i + 1)
             ELSE LET F1 == removeEmptyTags(F, token, 1)
                      kids == F1.heap[token].children
                      ws == isWhitespace(F1.heap, kids, 1)
                      first == IF kids = <<>> THEN 0 ELSE Head(kids)
                  IN  IF F1.threw THEN F1
                      ELSE IF ws = "throw" THEN [F1 EXCEPT !.threw = TRUE]
                      ELSE IF ws = "true" /\ MayNotBeEmpty(F1.heap[token].name)
                      THEN removeEmptyTags(
                              SetKids(F1, c, [Kids(F1, c) EXCEPT ![i] = first]), c, i + 1)
                      ELSE removeEmptyTags(F1, c, i + 1)

\* Array.prototype.filter((el) => !!el)
RECURSIVE FilterDefined(_)
FilterDefined(arr) ==
    IF arr = <<>> THEN <<>>
    ELSE IF Head(arr) = 0 THEN FilterDefined(Tail(arr))
    ELSE <<Head(arr)>> \o FilterDefined(Tail(arr))

\* lines 959-963 on a forest
RunFixInvalidNesting(F) ==
    IF fixInvalidNestingOpt THEN fixInvalidNesting(F, 0, <<>>, FALSE, 1) ELSE F

RunFixNewlines(F) == fixNewlines(F, 0, Len(F.output) + 1, FALSE, FALSE)

RunRemoveEmptyTags(F) == IF removeEmptyTagsOpt THEN removeEmptyTags(F, 0, 1) ELSE F

\* the loop of the tree builder has ended: line 959
FixInvalidNesting ==
    /\ pc = "build"
    /\ tokens = <<>>
    /\ LET F == RunFixInvalidNesting(Forest(heap, output))
       IN  /\ heap' = F.heap
           /\ output' = F.output
           /\ pc' = IF F.threw THEN "threw" ELSE "newlines"
    /\ built' = Forest(heap, output)
    /\ UNCHANGED <<handlers, input, lexed, text, tokens, openTags, mathErr, stackAtErr,
                   cloneUsed, result, again>>

\* line 961
FixNewlines ==
    /\ pc = "newlines"
    /\ LET F == RunFixNewlines(Forest(heap, output))
       IN  /\ heap' = F.heap
           /\ output' = F.output
    /\ pc' = "empty"
    /\ UNCHANGED <<handlers, input, lexed, text, tokens, openTags, built, mathErr,
                   stackAtErr, cloneUsed, result, again>>

\* line 963
RemoveEmptyTags ==
    /\ pc = "empty"
    /\ LET F == RunRemoveEmptyTags(Forest(heap, output))
       IN  /\ heap' = F.heap
           /\ output' = F.output
           /\ pc' = IF F.threw THEN "threw" ELSE "return"
    /\ UNCHANGED <<handlers, input, lexed, text, tokens, openTags, built, mathErr,
                   stackAtErr, cloneUsed, result, again>>

\* line 965
Return ==
    /\ pc = "return"
    /\ result' = FilterDefined(output)
    /\ pc' = "done"
    /\ UNCHANGED <<handlers, input, lexed, text, tokens, heap, openTags, output, built,
                   mathErr, stackAtErr, cloneUsed, again>>

\* the three repair passes run once more, on the forest parse returned
RepairAgain ==
    /\ pc = "done"
    /\ LET F1 == RunFixInvalidNesting(Forest(heap, result))
           F2 == IF F1.threw THEN F1 ELSE RunFixNewlines(F1)
           F3 == IF F2.threw THEN F2 ELSE RunRemoveEmptyTags(F2)
       IN  again' = F3
    /\ pc' = "repaired"
    /\ UNCHANGED <<handlers, input, lexed, text, tokens, heap, openTags, output, built,
                   mathErr, stackAtErr, cloneUsed, result>>

(***************************************************************************)
(* Descriptor mappings and inputs                                          *)
(***************************************************************************)
OpenOf(name) == <<delimOpen>> \o name \o <<delimClose>>
CloseOf(name) == <<delimOpen, delimMarkClose>> \o name \o <<delimClose>>

TagB == <<"b">>
TagI == <<"i">>
TagC == <<"c">>
TagHr == <<"h", "r">>
TagList == <<"l", "i", "s", "t">>
TagItem == <<"*">>
TagXyz == <<"x", "y", "z">>
Txt == <<"t", "e", "x", "t">>
MyNameIs == <<"M","y"," ","n","a","m","e"," ","i","s"," ">>
OpalArchive == <<"O","P","A","L"," ","A","r","c","h","i","v","e",".">>

\* new Parser({ b: {}, i: {} }), the parser of the README
ReadmeHandlers == (TagB :> BBCode) @@ (TagI :> BBCode)

\* b is a block tag, i an inline tag
BlockHandlers == (TagB :> [BBCode EXCEPT !.isInline = "false"]) @@ (TagI :> BBCode)

\* b may not be empty, i may
EmptyHandlers ==
    (TagB :> [BBCode EXCEPT !.allowsEmpty = "false"])
    @@ (TagI :> [BBCode EXCEPT !.allowsEmpty = "true"])

\* a list whose items are closed by the next item or by the end of the list
ListHandlers ==
    (TagList :> [BBCode EXCEPT !.allowedChildren = <<{TagItem}>>])
    @@ (TagItem :> [BBCode EXCEPT !.closedBy = <<{TagItem, <<"/">> \o TagList}>>])

\* a verbatim tag, a self-closing tag and an inline tag that may be empty
CodeHandlers ==
    (TagC :> [BBCode EXCEPT !.allowMath = "false", !.allowsEmpty = "true"])
    @@ (TagHr :> [BBCode EXCEPT !.isSelfClosing = "true"])
    @@ (TagB :> [BBCode EXCEPT !.allowsEmpty = "true"])

\* inline tags that set break flags; an item closed by the next item, by i
\* or by its own close tag
InlineBreakHandlers ==
    (TagI :> [BBCode EXCEPT !.breakAfter = "true", !.breakStart = "true",
                            !.breakEnd = "true", !.breakBefore = "true"])
    @@ (TagItem :> [BBCode EXCEPT !.closedBy = <<{TagItem, TagI, <<"/">> \o TagItem}>>,
                                  !.breakAfter = "true"])

Scenarios ==
    << [handlers |-> ReadmeHandlers,
        pieces |-> {OpenOf(TagB), CloseOf(TagB), OpenOf(TagI), CloseOf(TagI),
                    <<"x">>, <<" ">>, Dollar},
        examples |-> {OpenOf(TagB) \o MyNameIs \o OpenOf(TagI) \o OpalArchive
                          \o CloseOf(TagI) \o CloseOf(TagB),
                      OpenOf(TagXyz) \o <<"h", "i">> \o CloseOf(TagXyz),
                      OpenOf(TagB) \o OpenOf(TagI) \o CloseOf(TagI) \o CloseOf(TagB),
                      OpenOf(TagB) \o OpenOf(TagI) \o CloseOf(TagI) \o <<"x">> \o CloseOf(TagB),
                      <<"$", "2", "+", "3">>,
                      OpenOf(TagB) \o <<" ", "$", "x">> \o CloseOf(TagB),
                      OpenOf(TagB) \o OpenOf(TagI) \o CloseOf(TagI) \o <<"$", "x">>
                          \o CloseOf(TagB),
                      OpenOf(TagI) \o OpenOf(TagB) \o Txt \o CloseOf(TagI) \o CloseOf(TagB),
                      OpenOf(<<"B">>) \o <<"x">> \o OpenOf(<<"i", " ", "a", "=", "1">>)
                          \o <<"y">> \o CloseOf(<<"I">>) \o CloseOf(TagB),
                      <<BS, "(", "x", BS, ")", BS, "$", BS, "[", "y", BS, "]", "$", "$", "z", "$", "$">>}],
       [handlers |-> BlockHandlers,
        pieces |-> {OpenOf(TagB), CloseOf(TagB), OpenOf(TagI), CloseOf(TagI),
                    <<"x">>, <<"\n">>},
        examples |-> {OpenOf(TagI) \o Txt \o OpenOf(TagB) \o Txt \o CloseOf(TagB)
                          \o Txt \o CloseOf(TagI),
                      OpenOf(TagB) \o <<"x">> \o CloseOf(TagB) \o <<"\n", "\n">>,
                      OpenOf(TagI) \o <<"x">> \o OpenOf(TagB) \o <<"y">> \o CloseOf(TagB)
                          \o CloseOf(TagI),
                      OpenOf(TagB) \o <<"x">> \o OpenOf(TagI) \o <<"y">> \o CloseOf(TagI)
                          \o CloseOf(TagB),
                      OpenOf(TagI) \o OpenOf(TagB) \o <<"x">> \o CloseOf(TagB)
                          \o OpenOf(TagB) \o <<"y">> \o CloseOf(TagB) \o CloseOf(TagI),
                      OpenOf(TagI) \o <<"a">> \o OpenOf(TagB) \o <<"c">> \o OpenOf(TagB)
                          \o <<"x">> \o CloseOf(TagB) \o <<"d">> \o CloseOf(TagB)
                          \o <<"e">> \o CloseOf(TagI),
                      OpenOf(TagI) \o <<"a">> \o OpenOf(TagI) \o <<"c">> \o OpenOf(TagB)
                          \o <<"x">> \o CloseOf(TagB) \o <<"d">> \o CloseOf(TagI)
                          \o <<"e">> \o CloseOf(TagI)}],
       [handlers |-> EmptyHandlers,
        pieces |-> {OpenOf(TagB), CloseOf(TagB), OpenOf(TagI), CloseOf(TagI),
                    <<"x">>, <<" ">>, Dollar},
        examples |-> {OpenOf(TagI) \o OpenOf(TagB) \o <<" ">> \o CloseOf(TagB) \o CloseOf(TagI),
                      OpenOf(TagB) \o OpenOf(TagB) \o <<" ">> \o CloseOf(TagB) \o CloseOf(TagB),
                      OpenOf(TagB) \o <<"$", "x", "$", " ", "$", "y", "$">> \o CloseOf(TagB)}],
       [handlers |-> ListHandlers,
        pieces |-> {OpenOf(TagList), CloseOf(TagList), OpenOf(TagItem), OpenOf(<<"z">>),
                    <<"a">>, <<"\n">>},
        examples |-> {OpenOf(TagList) \o OpenOf(TagItem) \o <<"a">> \o <<"\n">>
                          \o OpenOf(TagItem) \o <<"b">> \o CloseOf(TagList),
                      OpenOf(TagList) \o OpenOf(TagItem) \o <<"a">> \o CloseOf(TagList),
                      OpenOf(TagList) \o <<"a", "$", "b", "$">> \o CloseOf(TagList)}],
       [handlers |-> CodeHandlers,
        pieces |-> {OpenOf(TagC), CloseOf(TagC), OpenOf(TagHr), OpenOf(TagB), CloseOf(TagB),
                    <<"x">>, Dollar},
        examples |-> {OpenOf(TagC) \o <<"$", "x", "$">> \o CloseOf(TagC)}],
       [handlers |-> InlineBreakHandlers,
        pieces |-> {OpenOf(TagI), CloseOf(TagI), OpenOf(TagItem), CloseOf(TagItem),
                    <<"x">>, <<"\n">>},
        examples |-> {OpenOf(TagItem) \o <<"a", "\n">> \o OpenOf(TagItem) \o <<"b">>,
                      OpenOf(TagItem) \o <<"a", "\n">> \o CloseOf(TagItem)}] >>

\* the inputs of a scenario: every concatenation of at most MaxLen of its
\* pieces, and its examples
Inputs(s) ==
    {Concat(ps) : ps \in UNION {[1..n -> s.pieces] : n \in 0..MaxLen}} \union s.examples

Init ==
    \E k \in 1..Len(Scenarios) :
        \E in \in Inputs(Scenarios[k]) :
            /\ handlers = Scenarios[k].handlers
            /\ input = in
            /\ text = in
            /\ tokens = <<>>
            /\ heap = <<>>
            /\ openTags = <<>>
            /\ output = <<>>
            /\ pc = "tokenize"
            /\ lexed = <<>>
            /\ built = Forest(<<>>, <<>>)
            /\ mathErr = 0
            /\ stackAtErr = <<>>
            /\ cloneUsed = FALSE
            /\ result = <<>>
            /\ again = Forest(<<>>, <<>>)

Next ==
    \/ Tokenize
    \/ TokenizeDone
    \/ MathDisallowed
    \/ MathUnterminated
    \/ MathSpan
    \/ OpenTag
    \/ CloseTag
    \/ CloseOutOfOrder
    \/ CloseStray
    \/ NewlineTok
    \/ ContentTok
    \/ FixInvalidNesting
    \/ FixNewlines
    \/ RemoveEmptyTags
    \/ Return
    \/ RepairAgain

Spec == Init /\ [][Next]_vars

(***************************************************************************)
(* Reading a forest                                                        *)
(***************************************************************************)
\* the raw text of the tokens of an array: each token's value, then its
\* children, then its closing token; an undefined entry has none
RECURSIVE Raw(_, _)
Raw(h, arr) ==
    IF arr = <<>> THEN <<>>
    ELSE IF Head(arr) = 0 THEN Raw(h, Tail(arr))
    ELSE h[Head(arr)].value
         \o Raw(h, h[Head(arr)].children)
         \o (IF h[Head(arr)].closing = 0 THEN <<>> ELSE h[h[Head(arr)].closing].value)
         \o Raw(h, Tail(arr))

\* a picture of a forest: for each token its type, name, value, children,
\* closing token and error
RECURSIVE Show(_, _)
Show(h, arr) ==
    [k \in 1..Len(arr) |->
        IF arr[k] = 0 THEN <<"undefined">>
        ELSE <<h[arr[k]].type, h[arr[k]].name, h[arr[k]].value,
               Show(h, h[arr[k]].children),
               IF h[arr[k]].closing = 0 THEN <<>>
               ELSE <<h[h[arr[k]].closing].type, h[h[arr[k]].closing].name,
                      h[h[arr[k]].closing].value>>,
               h[arr[k]].error>>]

\* the tokens of a forest, by identity: every entry of an array and of the
\* children below it
RECURSIVE Reach(_, _)
Reach(h, arr) ==
    IF arr = <<>> THEN {}
    ELSE IF Head(arr) = 0 THEN Reach(h, Tail(arr))
    ELSE {Head(arr)} \union Reach(h, h[Head(arr)].children) \union Reach(h, Tail(arr))

\* a forest without its newline tokens
RECURSIVE ShowWithoutNewlines(_, _)
ShowWithoutNewlines(h, arr) ==
    IF arr = <<>> THEN <<>>
    ELSE IF Head(arr) = 0 THEN <<<<"undefined">>>> \o ShowWithoutNewlines(h, Tail(arr))
    ELSE IF h[Head(arr)].type = "newline" THEN ShowWithoutNewlines(h, Tail(arr))
    ELSE << <<h[Head(arr)].type, h[Head(arr)].name, h[Head(arr)].value,
              ShowWithoutNewlines(h, h[Head(arr)].children),
              IF h[Head(arr)].closing = 0 THEN <<>>
              ELSE <<h[h[Head(arr)].closing].type, h[h[Head(arr)].closing].name,
                     h[h[Head(arr)].closing].value>>,
              h[Head(arr)].error>> >> \o ShowWithoutNewlines(h, Tail(arr))

Returned == pc \in {"done", "repaired"}
BuiltForest == pc \notin {"tokenize", "build"}
RepairChangedNothing == Show(heap, result) = Show(built.heap, built.output)

(***************************************************************************)
(* Totality of parse                                                       *)
(***************************************************************************)
\* C1: parse never throws: every input reaches the return statement, also
\* "[b][i][/i][/b]" and "[b][i][/i]x[/b]" under { b: {}, i: {} }.
C1_ParseNeverThrows == pc # "threw"

(***************************************************************************)
(* Round trip                                                              *)
(***************************************************************************)
\* C2 as stated: when no math span was left unterminated, the raw text of the
\* returned forest is the input.
C2_RoundTrip == (Returned /\ mathErr = 0) => Raw(heap, result) = input

\* C2: when no math span was left unterminated and no close tag arrived out of
\* order, the raw text of the forest the tree builder produced is the input,
\* and so is the raw text of the returned forest whenever the repair passes
\* left that forest as it was built.
C2_RoundTripOfBuiltForest ==
    (BuiltForest /\ mathErr = 0 /\ ~cloneUsed) =>
        /\ Raw(built.heap, built.output) = input
        /\ (Returned /\ RepairChangedNothing) => Raw(heap, result) = input

C2_Witness ==
    /\ pc = "done"
    /\ mathErr = 0
    /\ ~cloneUsed
    /\ RepairChangedNothing
    /\ \E id \in Reach(heap, result) :
        /\ heap[id].type = "open"
        /\ heap[id].closing # 0
        /\ \E c \in Reach(heap, heap[id].children) : heap[c].type = "open"

(***************************************************************************)
(* Balance                                                                 *)
(***************************************************************************)
\* C3 as stated: when no math span was left unterminated, every open token of
\* the returned forest has a closing token, and that token has its name.
C3_Balanced ==
    (Returned /\ mathErr = 0) =>
        \A id \in Reach(heap, result) :
            heap[id].type = "open" =>
                /\ heap[id].closing # 0
                /\ heap[heap[id].closing].name = heap[id].name

\* C3: every open token of the returned forest that has a closing token has
\* one of type close with the open token's name; an open token may have none.
C3_ClosingMatches ==
    Returned =>
        \A id \in Reach(heap, result) :
            (heap[id].type = "open" /\ heap[id].closing # 0) =>
                /\ heap[heap[id].closing].type = "close"
                /\ heap[heap[id].closing].name = heap[id].name

C3_Witness ==
    /\ pc = "done"
    /\ \E id \in Reach(heap, result) :
        /\ heap[id].type = "open"
        /\ heap[id].closing # 0
    /\ \E id \in Reach(heap, result) :
        /\ heap[id].type = "open"
        /\ heap[id].closing = 0

(***************************************************************************)
(* A second run of the repair passes                                       *)
(***************************************************************************)
\* C4 as stated: running the three repair passes again on a returned forest
\* changes nothing.
C4_Idempotent ==
    pc = "repaired" =>
        /\ ~again.threw
        /\ Show(again.heap, again.output) = Show(heap, result)

\* C4: running the three repair passes again on a returned forest does not
\* throw and changes nothing but the newline tokens: the forests without
\* their newline tokens are the same.
C4_IdempotentButNewlines ==
    pc = "repaired" =>
        /\ ~again.threw
        /\ ShowWithoutNewlines(again.heap, again.output)
               = ShowWithoutNewlines(heap, result)

C4_Witness ==
    /\ pc = "repaired"
    /\ ~RepairChangedNothing
    /\ Show(again.heap, again.output) # Show(heap, result)

(***************************************************************************)
(* Unterminated math                                                       *)
(***************************************************************************)
\* C5: when a math opener has no matching end, parse still returns, and in
\* the returned forest that math token has its error set and no closing
\* token, its children are the remaining lexemes as content tokens, and every
\* tag that was open has a synthesized closing token.
C5_UnterminatedMath ==
    mathErr # 0 =>
        /\ pc # "threw"
        /\ Returned =>
            /\ mathErr \in Reach(heap, result)
            /\ heap[mathErr].error # <<>>
            /\ heap[mathErr].closing = 0
            /\ heap[mathErr].children = [k \in 1..(Len(lexed) - mathErr) |-> mathErr + k]
            /\ \A k \in (mathErr + 1)..Len(lexed) :
                /\ heap[k].type = "content"
                /\ heap[k].value = lexed[k].value
            /\ \A k \in 1..Len(stackAtErr) :
                /\ heap[stackAtErr[k]].closing # 0
                /\ heap[heap[stackAtErr[k]].closing].type = "close"
                /\ heap[heap[stackAtErr[k]].closing].name = heap[stackAtErr[k]].name

(***************************************************************************)
(* Properly nested input                                                   *)
(***************************************************************************)
\* the tokens of a forest in source order: each token, its children, its
\* closing token
RECURSIVE FlatIds(_, _)
FlatIds(h, arr) ==
    IF arr = <<>> THEN <<>>
    ELSE IF Head(arr) = 0 THEN <<0>> \o FlatIds(h, Tail(arr))
    ELSE <<Head(arr)>> \o FlatIds(h, h[Head(arr)].children)
         \o (IF h[Head(arr)].closing = 0 THEN <<>> ELSE <<h[Head(arr)].closing>>)
         \o FlatIds(h, Tail(arr))

\* no descriptor uses closedBy, allowedChildren or isSelfClosing
PlainDescriptors ==
    \A n \in DOMAIN handlers :
        /\ handlers[n].closedBy = Absent
        /\ handlers[n].allowedChildren = Absent
        /\ ~Truthy(handlers[n].isSelfClosing)

IsBlock(name) == IsFalse(handlers[name].isInline)

\* the lexemes from k on are tags, closed in the order they were opened, and
\* text, with non-whitespace text inside each tag; st is the stack of the tags
\* open at k. With mixed = FALSE no block tag may open inside an inline tag.
RECURSIVE ProperlyNested(_, _, _)
ProperlyNested(k, st, mixed) ==
    IF k > Len(lexed) THEN st = <<>>
    ELSE IF lexed[k].type = "open"
    THEN /\ mixed \/ ~IsBlock(lexed[k].name)
               \/ \A j \in 1..Len(st) : IsBlock(st[j].name)
         /\ ProperlyNested(k + 1, Append(st, [name |-> lexed[k].name, text |-> FALSE]),
                           mixed)
    ELSE IF lexed[k].type = "close"
    THEN /\ st # <<>>
         /\ st[Len(st)].name = lexed[k].name
         /\ st[Len(st)].text
         /\ ProperlyNested(k + 1, SubSeq(st, 1, Len(st) - 1), mixed)
    ELSE IF lexed[k].type = "content"
    THEN ProperlyNested(k + 1,
                        IF HasNonSpace(lexed[k].value)
                        THEN [j \in 1..Len(st) |-> [st[j] EXCEPT !.text = TRUE]]
                        ELSE st,
                        mixed)
    ELSE FALSE

\* the returned forest is the nesting of the source: its tokens are the
\* lexemes, in source order, none retyped, and every open token has the
\* closing token of its name
MirrorsSource ==
    /\ FlatIds(heap, result) = [k \in 1..Len(lexed) |-> k]
    /\ \A k \in 1..Len(lexed) :
        /\ heap[k].type = lexed[k].type
        /\ heap[k].name = lexed[k].name
        /\ heap[k].value = lexed[k].value
    /\ \A id \in Reach(heap, result) :
        heap[id].type = "open" =>
            /\ heap[id].closing # 0
            /\ heap[heap[id].closing].type = "close"
            /\ heap[heap[id].closing].name = heap[id].name

\* C6 as stated: for properly nested known tags with non-whitespace text
\* inside each tag, no math, no newlines and plain descriptors, the returned
\* forest mirrors the nesting of the source.
C6_BasicNesting ==
    (Returned /\ PlainDescriptors /\ ProperlyNested(1, <<>>, TRUE)) => MirrorsSource

\* C6: for properly nested known tags with non-whitespace text inside each
\* tag, no math, no newlines, plain descriptors and no block-level tag inside
\* an inline tag, parse returns and the returned forest mirrors the nesting of
\* the source.
C6_BasicNestingOfSameLevel ==
    (PlainDescriptors /\ lexed # <<>> /\ ProperlyNested(1, <<>>, FALSE)) =>
        /\ pc # "threw"
        /\ Returned => MirrorsSource

C6_Witness ==
    /\ pc = "done"
    /\ PlainDescriptors
    /\ ProperlyNested(1, <<>>, FALSE)
    /\ \E id \in Reach(heap, result) :
        /\ heap[id].type = "open"
        /\ IsBlock(heap[id].name)
        /\ \E c \in Reach(heap, heap[id].children) :
            heap[c].type = "open" /\ ~IsBlock(heap[c].name)

(***************************************************************************)
(* The examples of the nesting repair and of unknown tags                  *)
(***************************************************************************)
ShownText == <<"content", Hash, Txt, <<>>, <<>>, <<>>>>
ShownClose(name) == <<"close", name, CloseOf(name)>>
ShownTag(name, children) ==
    <<"open", name, OpenOf(name), children, ShownClose(name), <<>>>>

InvalidNestingExample ==
    OpenOf(TagI) \o Txt \o OpenOf(TagB) \o Txt \o CloseOf(TagB) \o Txt \o CloseOf(TagI)

ParsedInvalidNestingExample ==
    Returned /\ handlers = BlockHandlers /\ input = InvalidNestingExample

UnknownTagExample == OpenOf(TagXyz) \o <<"h", "i">> \o CloseOf(TagXyz)

\* C8 as stated: text whose tags have no descriptor comes back as one content
\* token holding the text; "[xyz]hi[/xyz]" is one content token.
C8_UnknownTagIsOneToken ==
    (Returned /\ lexed # <<>> /\ \A k \in 1..Len(lexed) : lexed[k].type = "content") =>
        /\ Len(result) = 1
        /\ heap[result[1]].type = "content"
        /\ heap[result[1]].value = input

\* C8: text whose tags have no descriptor comes back as content tokens only,
\* one for each lexeme and in source order, whose values concatenate to the
\* text; "[xyz]hi[/xyz]" is the three content tokens "[xyz]", "hi", "[/xyz]".
C8_UnknownTagsAreContentTokens ==
    /\ (Returned /\ \A k \in 1..Len(lexed) : lexed[k].type = "content") =>
        /\ result = [k \in 1..Len(lexed) |-> k]
        /\ \A k \in 1..Len(lexed) :
            /\ heap[k].type = "content"
            /\ heap[k].children = <<>>
            /\ heap[k].closing = 0
        /\ Raw(heap, result) = input
    /\ (Returned /\ input = UnknownTagExample) =>
        [k \in 1..Len(result) |-> heap[result[k]].value]
            = <<OpenOf(TagXyz), <<"h", "i">>, CloseOf(TagXyz)>>

C8_Witness ==
    /\ pc = "done"
    /\ input = UnknownTagExample
    /\ \A k \in 1..Len(lexed) : lexed[k].type = "content"

(***************************************************************************)
(* Empty tags                                                              *)
(***************************************************************************)
\* an open token whose descriptor is not self-closing and says allowsEmpty:
\* false, and whose children are all absent or whitespace-only content
EmptyAndMayNotBe(id) ==
    /\ heap[id].type = "open"
    /\ heap[id].name \in DOMAIN handlers
    /\ ~Truthy(handlers[heap[id].name].isSelfClosing)
    /\ IsFalse(handlers[heap[id].name].allowsEmpty)
    /\ \A k \in 1..Len(heap[id].children) :
        \/ heap[id].children[k] = 0
        \/ /\ heap[heap[id].children[k]].type = "content"
           /\ ~HasNonSpace(heap[heap[id].children[k]].value)

EmptyTagExample == OpenOf(TagB) \o CloseOf(TagB)

\* C9: no open token of the returned forest has a descriptor that is not
\* self-closing and says allowsEmpty: false while its children are all absent
\* or whitespace-only content, and the returned array has no undefined entry;
\* "[b][/b]" with b allowsEmpty: false comes back without b.
C9_EmptyTagsPruned ==
    Returned =>
        /\ \A id \in Reach(heap, result) : ~EmptyAndMayNotBe(id)
        /\ \A k \in 1..Len(result) : result[k] # 0
        /\ (input = EmptyTagExample /\ handlers = EmptyHandlers) => result = <<>>

C9_Witness ==
    /\ pc = "done"
    /\ handlers = EmptyHandlers
    /\ \E id \in Reach(built.heap, built.output) :
        /\ built.heap[id].name = TagB
        /\ built.heap[id].type = "open"
        /\ id \notin Reach(heap, result)
    /\ \E id \in Reach(heap, result) : heap[id].type = "open"

\* C10: a tag whose descriptor does not set allowsEmpty is never pruned: every
\* such open token the tree builder produced is in the returned forest;
\* "[b][/b]" under { b: {}, i: {} } comes back with its b token.
C10_AllowsEmptyDefaultsToTrue ==
    Returned =>
        \A id \in Reach(built.heap, built.output) :
            (/\ built.heap[id].type = "open"
             /\ handlers[built.heap[id].name].allowsEmpty = Undef)
                => id \in Reach(heap, result)

(***************************************************************************)
(* Allowed children                                                        *)
(***************************************************************************)
\* does the open token id declare a whitelist of children that is in force
HasWhitelist(id) ==
    /\ heap[id].type = "open"
    /\ heap[id].name \in DOMAIN handlers
    /\ fixInvalidChildren
    /\ handlers[heap[id].name].allowedChildren # Absent

\* C11: in the returned forest every token at any depth inside an open tag
\* whose descriptor declares allowedChildren has a name of that list or is of
\* type content; tags, newlines and math tokens alike.
C11_DisallowedChildrenAreContent ==
    Returned =>
        \A id \in Reach(heap, result) :
            HasWhitelist(id) =>
                \A c \in Reach(heap, heap[id].children) :
                    \/ heap[c].type = "content"
                    \/ heap[c].name \in handlers[heap[id].name].allowedChildren[1]

(***************************************************************************)
(* Break flags                                                             *)
(***************************************************************************)
\* no descriptor sets isInline to false
AllInline == \A n \in DOMAIN handlers : ~IsFalse(handlers[n].isInline)

\* C12: the break flags of a tag whose descriptor does not set isInline to
\* false have no effect: when no tag is block-level, whatever the flags are,
\* a newline never closes a tag in the tree builder and fixNewlines removes no
\* newline.
C12_BreakFlagsNeedBlock ==
    [][AllInline =>
        /\ (pc = "build" /\ tokens # <<>> /\ heap[Tok].type = "newline")
                => openTags' = openTags
        /\ pc = "newlines" => Show(heap', output') = Show(heap, output)]_vars

(***************************************************************************)
(* Termination                                                             *)
(***************************************************************************)
\* the position inside parse, counted from its end
Rank ==
    CASE pc = "tokenize" -> 6
      [] pc = "build" -> 5
      [] pc = "newlines" -> 4
      [] pc = "empty" -> 3
      [] pc = "return" -> 2
      [] pc = "done" -> 1
      [] OTHER -> 0

\* what is left to do: the positions left, and inside the two loops the
\* length of the text not yet lexed and of the lexeme stream not yet consumed
Remaining ==
    Rank * (Len(input) + 1)
        + (IF pc = "tokenize" THEN Len(text) ELSE IF pc = "build" THEN Len(tokens) ELSE 0)

\* C13: parse finishes on every input: every iteration of the lexer loop
\* shortens the text, every iteration of the tree builder shortens the lexeme
\* stream (the math look-ahead included), and every repair pass, the nesting
\* repair among them, comes to an end: each step of parse lowers what
\* remains, which is a natural number.
C13_Termination ==
    [][/\ (pc = "tokenize" /\ text # <<>>) => Len(text') < Len(text)
       /\ (pc = "build" /\ tokens # <<>>) => Len(tokens') < Len(tokens)
       /\ Remaining' < Remaining
       /\ Remaining' >= 0]_vars

C13_Witness ==
    /\ pc = "done"
    /\ handlers = BlockHandlers
    /\ Len(heap) > Len(lexed)
    /\ Len(result) > Len(built.output)
    /\ \E id \in 1..Len(lexed) : IsMathType(lexed[id].type) \/ lexed[id].type = "open"

(***************************************************************************)
(* The open rule                                                           *)
(***************************************************************************)
\* the tree builder is about to handle an open lexeme of a known tag that is
\* not self-closing (the suppressed-child check has left it an open token)
HandlesOpen ==
    /\ pc = "build"
    /\ tokens # <<>>
    /\ ~IsMathOpen(heap[Tok])
    /\ Checked[Tok].type = "open"
    /\ ~Truthy(handlers[Checked[Tok].name].isSelfClosing)

\* its descriptor declares closedBy, or a close lexeme of its name is ahead
MayClose ==
    \/ handlers[heap[Tok].name].closedBy # Absent
    \/ \E k \in 2..Len(tokens) :
        heap[tokens[k]].type = "close" /\ heap[tokens[k]].name = heap[Tok].name

\* the stack when the open lexeme is added: the innermost tag is closed first
\* when its closedBy names the opening tag
StackAtOpen ==
    IF /\ openTags # <<>>
       /\ handlers[heap[openTags[Len(openTags)]].name].closedBy # Absent
       /\ heap[Tok].name \in handlers[heap[openTags[Len(openTags)]].name].closedBy[1]
    THEN SubSeq(openTags, 1, Len(openTags) - 1)
    ELSE openTags

\* token id is the last entry of the container on top of stack st
AppendedTo(st, id) ==
    IF st = <<>>
    THEN output' = Append(output, id)
    ELSE heap'[st[Len(st)]].children = Append(heap[st[Len(st)]].children, id)

\* no token of type content has children
ContentTokensAreLeaves ==
    \A id \in 1..Len(heap) : heap[id].type = "content" => heap[id].children = <<>>

\* C14 as stated: an open lexeme of a known tag that is not self-closing is
\* pushed if and only if its descriptor declares closedBy or a close lexeme
\* of its name is ahead; otherwise it is appended to the current container as
\* a content token without children and the stack is left unchanged.
C14_OpenRule ==
    [][HandlesOpen =>
        /\ ContentTokensAreLeaves'
        /\ IF MayClose
           THEN /\ heap'[Tok].type = "open"
                /\ openTags' # <<>>
                /\ openTags'[Len(openTags')] = Tok
           ELSE /\ heap'[Tok].type = "content"
                /\ openTags' = openTags
                /\ AppendedTo(openTags, Tok)]_vars

\* C14: an open lexeme of a known tag that is not self-closing is first added
\* to the current container, after the innermost open tag is popped if its
\* closedBy names the opening tag; it is then pushed if and only if its
\* descriptor declares closedBy or a close lexeme of its name is ahead, and
\* otherwise it becomes a content token, is not pushed, and never has
\* children.
C14_OpenRuleAfterAutoClose ==
    [][HandlesOpen =>
        /\ ContentTokensAreLeaves'
        /\ AppendedTo(StackAtOpen, Tok)
        /\ IF MayClose
           THEN /\ heap'[Tok].type = "open"
                /\ openTags' = Append(StackAtOpen, Tok)
           ELSE /\ heap'[Tok].type = "content"
                /\ openTags' = StackAtOpen]_vars

C14_Witness ==
    /\ pc = "build"
    /\ handlers = InlineBreakHandlers
    /\ input = OpenOf(TagItem) \o OpenOf(TagI) \o <<"x">>
    /\ tokens = <<>>
    /\ output = <<1, 2, 3>>
    /\ heap[2].type = "content"
    /\ heap[1].type = "open"

(***************************************************************************)
(* The auto-close chain of a close lexeme                                  *)
(***************************************************************************)
\* the tree builder is about to handle a close lexeme
HandlesClose ==
    /\ pc = "build"
    /\ tokens # <<>>
    /\ ~IsMathOpen(heap[Tok])
    /\ heap[Tok].type = "close"

\* openTags[p] is the innermost open tag with the name of the close lexeme,
\* and every tag above it lists "/" + that name in its closedBy
ChainTarget(p) ==
    /\ heap[openTags[p]].name = heap[Tok].name
    /\ \A j \in (p + 1)..Len(openTags) :
        /\ heap[openTags[j]].name # heap[Tok].name
        /\ heap[openTags[j]].name \in DOMAIN handlers
        /\ handlers[heap[openTags[j]].name].closedBy # Absent
        /\ (<<delimMarkClose>> \o heap[Tok].name)
               \in handlers[heap[openTags[j]].name].closedBy[1]

\* C15: when a close lexeme [/P] is handled while P is on the stack and every
\* tag above P lists "/P" in its closedBy, those tags are popped, the close
\* lexeme becomes P's closing token and P is popped; the lexeme stays a close
\* token, whatever the allowedChildren whitelists are.
C15_AutoCloseChain ==
    [][HandlesClose =>
        \A p \in 1..Len(openTags) : ChainTarget(p) =>
            /\ heap'[Tok].type = "close"
            /\ heap'[openTags[p]].closing = Tok
            /\ openTags' = SubSeq(openTags, 1, p - 1)]_vars

(***************************************************************************)
(* The newline rule                                                        *)
(***************************************************************************)
\* the tree builder is about to handle a newline lexeme
HandlesNewline ==
    /\ pc = "build"
    /\ tokens # <<>>
    /\ ~IsMathOpen(heap[Tok])
    /\ heap[Tok].type = "newline"

\* the lexeme after the newline is the close tag of the innermost open tag
NextClosesCurrent ==
    /\ openTags # <<>>
    /\ Len(tokens) >= 2
    /\ heap[tokens[2]].type = "close"
    /\ heap[tokens[2]].name = heap[openTags[Len(openTags)]].name

\* C16: a newline lexeme followed by the close tag of the innermost open tag
\* does not pop that tag, whatever its closedBy and break flags are; and a
\* newline lexeme is always appended to the current container.
C16_NewlineBeforeOwnClose ==
    [][HandlesNewline =>
        /\ NextClosesCurrent => openTags' = openTags
        /\ AppendedTo(openTags', Tok)]_vars

(***************************************************************************)
(* What the pruner keeps                                                   *)
(***************************************************************************)
\* a math span, an escaped dollar or content that is not only whitespace
Substantial(id) ==
    \/ IsMathOpen(heap[id])
    \/ heap[id].type = "escapedollar"
    \/ (heap[id].type = "content" /\ HasNonSpace(heap[id].value))

\* every child of the token is whitespace-only content or a line break (or
\* there is none)
OnlyWhitespaceContent(id) ==
    \A k \in 1..Len(heap[id].children) :
        /\ heap[id].children[k] # 0
        /\ heap[heap[id].children[k]].type \in {"content", "newline"}
        /\ ~HasNonSpace(heap[heap[id].children[k]].value)

\* C17: the pruner removes a tag only when all its children are
\* whitespace-only content or it has none: a tag that holds a math span, an
\* escaped dollar or content that is not whitespace stays, and no such child
\* is dropped ("[b]$x$ $y$[/b]" with b: {allowsEmpty: false} keeps b with both
\* math spans).
C17_PrunerKeepsMath ==
    [][pc = "empty" =>
        \A id \in Reach(heap, output) :
            /\ (heap[id].type = "open" /\ id \notin Reach(heap', output'))
                   => OnlyWhitespaceContent(id)
            /\ Substantial(id) => id \in Reach(heap', output')]_vars

(***************************************************************************)
(* Nesting repair converges                                                *)
(***************************************************************************)
\* the open tokens of block tags that are below an open token of an inline
\* tag in the forest
BlocksInsideInline(h, arr) ==
    {c \in Reach(h, arr) :
        /\ h[c].type = "open"
        /\ ~isInline(h[c].name)
        /\ \E id \in Reach(h, arr) :
            /\ h[id].type = "open"
            /\ isInline(h[id].name)
            /\ c \in Reach(h, h[id].children)}

\* C18: in the forest parse returns no open token of a block tag is a
\* descendant of an open token of an inline tag, and one more run of the
\* nesting repair changes nothing: the single run parse makes has converged.
C18_NestingRepairConverges ==
    (Returned /\ fixInvalidNestingOpt) =>
        /\ BlocksInsideInline(heap, result) = {}
        /\ ~RunFixInvalidNesting(Forest(heap, result)).threw
        /\ Show(RunFixInvalidNesting(Forest(heap, result)).heap,
                RunFixInvalidNesting(Forest(heap, result)).output) = Show(heap, result)

\* several block tags inside one inline tag, a block tag in a block tag inside
\* an inline tag, and a block tag inside two inline tags
SeveralBlocks ==
    OpenOf(TagI) \o OpenOf(TagB) \o <<"x">> \o CloseOf(TagB)
        \o OpenOf(TagB) \o <<"y">> \o CloseOf(TagB) \o CloseOf(TagI)
BlockInBlock ==
    OpenOf(TagI) \o <<"a">> \o OpenOf(TagB) \o <<"c">> \o OpenOf(TagB) \o <<"x">>
        \o CloseOf(TagB) \o <<"d">> \o CloseOf(TagB) \o <<"e">> \o CloseOf(TagI)
BlockInTwoInline ==
    OpenOf(TagI) \o <<"a">> \o OpenOf(TagI) \o <<"c">> \o OpenOf(TagB) \o <<"x">>
        \o CloseOf(TagB) \o <<"d">> \o CloseOf(TagI) \o <<"e">> \o CloseOf(TagI)

\* the three inputs above are parsed to the end and their block tags were
\* inside inline tags before the repair
NestingExamplesReturn ==
    (handlers = BlockHandlers /\ input \in {SeveralBlocks, BlockInBlock, BlockInTwoInline}) =>
        /\ pc # "threw"
        /\ BuiltForest => BlocksInsideInline(built.heap, built.output) # {}

C18_Witness ==
    /\ pc = "done"
    /\ handlers = BlockHandlers
    /\ input = BlockInBlock
    /\ Cardinality(BlocksInsideInline(built.heap, built.output)) = 2
    /\ \E id \in Reach(heap, result) :
        /\ heap[id].type = "open"
        /\ ~isInline(heap[id].name)
        /\ \E c \in Reach(heap, heap[id].children) :
            heap[c].type = "open" /\ ~isInline(heap[c].name)

====
